---- MODULE Spec2Model ----
(***************************************************************************)
(* Model of deepreg/dataset/loader/interface.py: the sample generator      *)
(* (validate_images_and_labels, sample_image_label, data_generator), the   *)
(* batching pipeline of DataLoader.get_dataset_and_preprocess, the grouped *)
(* FileLoader queries and ConcatenatedDataLoader.                          *)
(*                                                                         *)
(* An ndarray is a record: shape (tuple of dimension sizes), lo / hi (the  *)
(* minimum and maximum value as numerators over the denominator den), sel  *)
(* (the last-axis indices a view was taken with, <<>> for the array as     *)
(* loaded) and none (TRUE for Python's None).                              *)
(***************************************************************************)
EXTENDS Integers, Sequences, FiniteSets, TLC

VARIABLES
    \* ---- one call of validate_images_and_labels / sample_image_label
    moving_image, fixed_image, moving_label, fixed_label, image_indices,
    sample_label, call, outcome, records, warnings,
    \* ---- one traversal of data_generator
    labeled, gen_policy, backend, position, pending, emitted, gen_status,
    \* ---- get_dataset_and_preprocess
    num_records, args, pipeline,
    \* ---- FileLoader group structure
    grouped, group_ids, group_sample_dict, group_result,
    \* ---- ConcatenatedDataLoader / DataLoader.close
    loader_class, loaders, closed, attempted, close_calls, close_result,
    num_samples_result

sampleVars == <<moving_image, fixed_image, moving_label, fixed_label,
                image_indices, sample_label, call, outcome, records, warnings>>
genVars == <<labeled, gen_policy, backend, position, pending, emitted, gen_status>>
batchVars == <<num_records, args, pipeline>>
groupVars == <<grouped, group_ids, group_sample_dict, group_result>>
concatVars == <<loader_class, loaders, closed, attempted, close_calls,
                close_result, num_samples_result>>
vars == <<sampleVars, genVars, batchVars, groupVars, concatVars>>

----------------------------------------------------------------------------
\* Bounds of the model
MaxChannels == 2
MaxTuples == 3
MaxRecords == 4
MaxBatchSize == 3
MaxGroups == 3
MaxGroupSize == 2
MaxLoaders == 3
MaxNumSamples == 2
MaxCloseCalls == 2

\* side length of the spatial dimensions of the volumes used as inputs
Side == 2

----------------------------------------------------------------------------
\* Helpers on sequences
Front(s) == SubSeq(s, 1, Len(s) - 1)

Last(s) == s[Len(s)]

Prefix3(s) == SubSeq(s, 1, IF Len(s) < 3 THEN Len(s) ELSE 3)

RECURSIVE Product(_)
Product(s) == IF s = <<>> THEN 1 ELSE Head(s) * Product(Tail(s))

Range(s) == {s[i] : i \in 1..Len(s)}

----------------------------------------------------------------------------
\* ndarrays
None == [none |-> TRUE, shape |-> <<>>, lo |-> 0, hi |-> 0, den |-> 1, sel |-> <<>>]

Array(shape, lo, hi, den) ==
    [none |-> FALSE, shape |-> shape, lo |-> lo, hi |-> hi, den |-> den, sel |-> <<>>]

\* arr.size == 0: np.min / np.max of such an array raise ValueError
IsEmpty(arr) == Product(arr.shape) = 0

\* arr / 255.0 (None / 255.0 is a TypeError, handled by the caller)
Div255(arr) == [arr EXCEPT !.den = arr.den * 255]

\* arr[..., k] for 0 <= k < arr.shape[-1]: a view without the last axis
LastAxisIndex(arr, k) ==
    [arr EXCEPT !.shape = Front(arr.shape), !.sel = Append(arr.sel, k)]

\* np.asarray(..., dtype=np.float32) of an integer: exact up to 2^24, above
\* that rounded to the nearest representable value (spacing 2 up to 2^25)
Float32Exact == 16777216

ToFloat32(i) ==
    LET a == IF i < 0 THEN -i ELSE i
        r == IF a <= Float32Exact \/ a % 2 = 0 THEN a
             ELSE IF (a + 1) % 4 = 0 THEN a + 1 ELSE a - 1
    IN IF i < 0 THEN -r ELSE r

AsFloat32Array(s) == [i \in 1..Len(s) |-> ToFloat32(s[i])]

----------------------------------------------------------------------------
\* GeneratorDataLoader.validate_images_and_labels: the error raised ("none"
\* when the call returns) and the number of warnings logged
\* (the 3-D case forgotten)
NumLabelsLastAxis(label) == Last(label.shape)

NumLabels(label) == IF Len(label.shape) = 3 THEN 1 ELSE Last(label.shape)

OutOfRange(arr) == arr.lo < 0 \/ arr.hi > arr.den

\* the range loop over [moving_image, fixed_image, moving_label, fixed_label]
RECURSIVE RangeCheck(_)
RangeCheck(arrs) ==
    IF arrs = <<>> THEN "none"
    ELSE IF Head(arrs).none THEN RangeCheck(Tail(arrs))
    ELSE IF IsEmpty(Head(arrs)) THEN "ValueError: zero-size array"
    ELSE IF OutOfRange(Head(arrs)) THEN "ValueError: value outside [0,1]"
    ELSE RangeCheck(Tail(arrs))

ShapeWarnings(mi, fi, ml, fl) ==
    (IF Prefix3(mi.shape) # Prefix3(ml.shape) THEN 1 ELSE 0)
    + (IF Prefix3(fi.shape) # Prefix3(fl.shape) THEN 1 ELSE 0)

validate_images_and_labels(mi, fi, ml, fl) ==
    IF mi.none \/ fi.none
    THEN [err |-> "ValueError: image is None", warnings |-> 0]
    ELSE IF ml.none # fl.none
    THEN [err |-> "ValueError: one label is None", warnings |-> 0]
    ELSE IF RangeCheck(<<mi, fi, ml, fl>>) # "none"
    THEN [err |-> RangeCheck(<<mi, fi, ml, fl>>), warnings |-> 0]
    ELSE IF Len(mi.shape) # 3 \/ Len(fi.shape) # 3
    THEN [err |-> "ValueError: image not 3D", warnings |-> 0]
    ELSE IF ml.none
    THEN [err |-> "none", warnings |-> 0]
    ELSE IF Len(ml.shape) \notin {3, 4} \/ Len(fl.shape) \notin {3, 4}
    THEN [err |-> "ValueError: label not 3D or 4D", warnings |-> 0]
    ELSE IF NumLabels(ml) # NumLabels(fl)
    THEN [err |-> "ValueError: different numbers of labels",
          warnings |-> ShapeWarnings(mi, fi, ml, fl)]
    ELSE [err |-> "none", warnings |-> ShapeWarnings(mi, fi, ml, fl)]

----------------------------------------------------------------------------
\* deepreg.dataset.util.get_label_indices: the lists of label indices the
\* policy can select for a volume of num_labels channels
LabelPolicies ==
    {[kind |-> "all", index |-> 0], [kind |-> "sample", index |-> 0]}
    \cup {[kind |-> "index", index |-> k] : k \in 0..(MaxChannels - 1)}

get_label_indices(num_labels, policy) ==
    IF policy.kind = "all"
    THEN {[k \in 1..num_labels |-> k - 1]}
    ELSE IF policy.kind = "sample"
    THEN {<<k>> : k \in 0..(num_labels - 1)}
    ELSE {<<policy.index>>}

\* GeneratorDataLoader.sample_image_label, the loop over label_indices of a
\* 4-D moving label: the records yielded, and the error that ends the loop
RECURSIVE MultiLabelRecords(_, _, _, _, _, _)
MultiLabelRecords(mi, fi, ml, fl, ii, label_indices) ==
    IF label_indices = <<>> THEN [err |-> "none", records |-> <<>>]
    ELSE LET k == Head(label_indices)
         IN IF k >= Last(ml.shape) \/ k >= Last(fl.shape)
            THEN [err |-> "IndexError", records |-> <<>>]
            ELSE LET rest == MultiLabelRecords(mi, fi, ml, fl, ii, Tail(label_indices))
                     rec == [moving_image |-> mi,
                             fixed_image |-> fi,
                             indices |-> AsFloat32Array(Append(ii, k)),
                             moving_label |-> LastAxisIndex(ml, k),
                             fixed_label |-> LastAxisIndex(fl, k)]
                 IN [err |-> rest.err, records |-> <<rec>> \o rest.records]

\* the label index lists sample_image_label can get from get_label_indices:
\* it is called only after validation, for a 4-D moving label
LabelIndexChoices(mi, fi, ml, fl, policy) ==
    IF validate_images_and_labels(mi, fi, ml, fl).err = "none"
       /\ ~ml.none /\ Len(ml.shape) = 4
    THEN get_label_indices(ml.shape[4], policy)
    ELSE {<<>>}

\* the record sample_image_label yields for an unlabeled sample
UnlabeledRecordIndexZero(mi, fi, ii) ==
    [moving_image |-> mi, fixed_image |-> fi,
     indices |-> AsFloat32Array(Append(ii, 0))]

UnlabeledRecord(mi, fi, ii) ==
    [moving_image |-> mi, fixed_image |-> fi,
     indices |-> AsFloat32Array(Append(ii, -1))]

\* the record sample_image_label yields for a 3-D moving label
SingleLabelRecord(mi, fi, ml, fl, ii) ==
    [moving_image |-> mi, fixed_image |-> fi,
     moving_label |-> ml, fixed_label |-> fl,
     indices |-> AsFloat32Array(Append(ii, 0))]

\* GeneratorDataLoader.sample_image_label run to its end: the records it
\* yields and the error it ends with ("none" when it is exhausted)
sample_image_label(mi, fi, ml, fl, ii, label_indices) ==
    IF validate_images_and_labels(mi, fi, ml, fl).err # "none"
    THEN [err |-> validate_images_and_labels(mi, fi, ml, fl).err, records |-> <<>>]
    ELSE IF ml.none
    THEN [err |-> "none", records |-> <<UnlabeledRecord(mi, fi, ii)>>]
    ELSE IF Len(ml.shape) = 4
    THEN MultiLabelRecords(mi, fi, ml, fl, ii, label_indices)
    ELSE [err |-> "none", records |-> <<SingleLabelRecord(mi, fi, ml, fl, ii)>>]

----------------------------------------------------------------------------
\* Inputs of one call: normalised images, binary labels
Volume == <<Side, Side, Side>>

ImageInputs ==
    {Array(Volume, 0, 255, 255), Array(Volume, -1, 255, 255),
     Array(Volume, 0, 256, 255),
     Array(<<Side, Side>>, 0, 255, 255), Array(<<0, Side, Side>>, 0, 0, 255),
     None}

LabelInputs ==
    {Array(Volume, 0, 1, 1), Array(Volume, -1, 1, 1), Array(Volume, 0, 2, 1),
     Array(<<Side, Side>>, 0, 1, 1), Array(<<Side, Side, Side + 1>>, 0, 1, 1),
     Array(<<0, Side, Side>>, 0, 0, 1),
     Array(<<Side, Side, Side, 2, 2>>, 0, 1, 1),
     None}
    \cup {Array(<<Side, Side, Side, c>>, 0, 1, 1) : c \in 0..MaxChannels}

IndexInputs == {<<1>>, <<2, 0>>}

SampleIdle ==
    /\ moving_image = None
    /\ fixed_image = None
    /\ moving_label = None
    /\ fixed_label = None
    /\ image_indices = <<>>
    /\ sample_label = [kind |-> "all", index |-> 0]
    /\ call = "idle"
    /\ outcome = "none"
    /\ records = <<>>
    /\ warnings = 0

SampleInit ==
    /\ moving_image \in ImageInputs
    /\ fixed_image \in ImageInputs
    /\ moving_label \in LabelInputs
    /\ fixed_label \in LabelInputs
    /\ image_indices \in IndexInputs
    /\ sample_label \in LabelPolicies
    /\ call = "none"
    /\ outcome = "none"
    /\ records = <<>>
    /\ warnings = 0

\* a call of validate_images_and_labels on the inputs
Validate ==
    /\ call = "none"
    /\ call' = "validate"
    /\ outcome' = validate_images_and_labels(
                      moving_image, fixed_image, moving_label, fixed_label).err
    /\ warnings' = validate_images_and_labels(
                       moving_image, fixed_image, moving_label, fixed_label).warnings
    /\ records' = <<>>
    /\ UNCHANGED <<moving_image, fixed_image, moving_label, fixed_label,
                   image_indices, sample_label>>
    /\ UNCHANGED <<genVars, batchVars, groupVars, concatVars>>

\* a traversal of the generator sample_image_label returns for the inputs
SampleImageLabel ==
    /\ call = "none"
    /\ \E label_indices \in LabelIndexChoices(moving_image, fixed_image, moving_label,
                                             fixed_label, sample_label) :
         LET out == sample_image_label(moving_image, fixed_image, moving_label,
                                       fixed_label, image_indices, label_indices)
         IN /\ outcome' = out.err
            /\ records' = out.records
    /\ call' = "sample"
    /\ warnings' = validate_images_and_labels(
                       moving_image, fixed_image, moving_label, fixed_label).warnings
    /\ UNCHANGED <<moving_image, fixed_image, moving_label, fixed_label,
                   image_indices, sample_label>>
    /\ UNCHANGED <<genVars, batchVars, groupVars, concatVars>>

----------------------------------------------------------------------------
\* GeneratorDataLoader.data_generator over a paired backend; one action is one
\* next() of the generator.  backend[i] is what the four file loaders return
\* for index i - 1 (raw images in [0, 255], binary labels).
RawImageOk == Array(Volume, 0, 255, 1)

RawImageBright == Array(Volume, 0, 256, 1)

Label3D == Array(Volume, 0, 1, 1)

Label4D == Array(<<Side, Side, Side, MaxChannels>>, 0, 1, 1)

BackendEntries ==
    {[moving_image |-> RawImageOk, fixed_image |-> RawImageOk,
      moving_label |-> Label3D, fixed_label |-> Label3D],
     [moving_image |-> RawImageOk, fixed_image |-> RawImageOk,
      moving_label |-> Label4D, fixed_label |-> Label4D],
     [moving_image |-> RawImageBright, fixed_image |-> RawImageOk,
      moving_label |-> Label3D, fixed_label |-> Label3D],
     [moving_image |-> RawImageOk, fixed_image |-> RawImageOk,
      moving_label |-> Label4D, fixed_label |-> Label3D]}

\* the paired sample_index_generator: (i, i, [i]) for i in 0..num_images-1
sample_index_generator(num_images) == [n \in 1..num_images |-> <<n - 1, n - 1, <<n - 1>> >>]

\* the body of the loop of data_generator up to the call of
\* sample_image_label: the arguments of that call for one index tuple
LoadSample(entries, is_labeled, index_tuple) ==
    [moving_image |-> Div255(entries[index_tuple[1] + 1].moving_image),
     fixed_image |-> Div255(entries[index_tuple[2] + 1].fixed_image),
     moving_label |-> IF is_labeled THEN entries[index_tuple[1] + 1].moving_label ELSE None,
     fixed_label |-> IF is_labeled THEN entries[index_tuple[2] + 1].fixed_label ELSE None,
     image_indices |-> index_tuple[3]]

NoPending == [err |-> "none", records |-> <<>>]

\* what next() does with the state of the running sample_image_label
\* generator `out`: yield its next record, or propagate its error, or (when
\* it is exhausted) go on with the next index tuple
GenStepSkipInvalid(out, emit, pos) ==
    IF out.records # <<>>
    THEN [emitted |-> Append(emit, Head(out.records)),
          pending |-> [out EXCEPT !.records = Tail(out.records)],
          position |-> pos, status |-> "running"]
    ELSE [emitted |-> emit, pending |-> NoPending,
          position |-> pos, status |-> "running"]

GenStep(out, emit, pos) ==
    IF out.records # <<>>
    THEN [emitted |-> Append(emit, Head(out.records)),
          pending |-> [out EXCEPT !.records = Tail(out.records)],
          position |-> pos, status |-> "running"]
    ELSE IF out.err # "none"
    THEN [emitted |-> emit, pending |-> NoPending,
          position |-> pos, status |-> out.err]
    ELSE [emitted |-> emit, pending |-> NoPending,
          position |-> pos, status |-> "running"]

GenIdle ==
    /\ labeled = FALSE
    /\ gen_policy = [kind |-> "all", index |-> 0]
    /\ backend = <<>>
    /\ position = 1
    /\ pending = NoPending
    /\ emitted = <<>>
    /\ gen_status = "idle"

GenInit ==
    /\ labeled \in BOOLEAN
    /\ gen_policy \in LabelPolicies
    /\ backend \in UNION {[1..n -> BackendEntries] : n \in 0..MaxTuples}
    /\ position = 1
    /\ pending = NoPending
    /\ emitted = <<>>
    /\ gen_status = "running"

Apply(step) ==
    /\ emitted' = step.emitted
    /\ pending' = step.pending
    /\ position' = step.position
    /\ gen_status' = step.status

\* one next() on the generator data_generator returns
DataGeneratorNext ==
    /\ gen_status = "running"
    /\ IF pending # NoPending
       THEN Apply(GenStep(pending, emitted, position))
       ELSE IF position > Len(backend)
       THEN /\ gen_status' = "done"
            /\ UNCHANGED <<emitted, pending, position>>
       ELSE LET s == LoadSample(backend, labeled,
                                sample_index_generator(Len(backend))[position])
            IN \E label_indices \in LabelIndexChoices(
                      s.moving_image, s.fixed_image, s.moving_label,
                      s.fixed_label, gen_policy) :
                  Apply(GenStep(sample_image_label(
                                    s.moving_image, s.fixed_image, s.moving_label,
                                    s.fixed_label, s.image_indices, label_indices),
                                emitted, position + 1))
    /\ UNCHANGED <<labeled, gen_policy, backend>>
    /\ UNCHANGED <<sampleVars, batchVars, groupVars, concatVars>>

----------------------------------------------------------------------------
\* DataLoader.get_dataset_and_preprocess.  A dataset is the sequence of the
\* elements of one traversal; an element is a record number with the stages
\* it went through.
Element(i) == [id |-> i, resized |-> FALSE]

\* get_dataset(): num_records records
get_dataset(n) == [i \in 1..n |-> Element(i)]

\* dataset.map(resize_inputs)
MapResize(ds) == [i \in 1..Len(ds) |-> [ds[i] EXCEPT !.resized = TRUE]]

\* dataset.shuffle(buffer_size): the orders a buffer of that size can give
\* (the element at output place p was among the first p + buffer_size - 1)
ShuffleOrders(ds, buffer_size) ==
    {[p \in 1..Len(ds) |-> ds[f[p]]] :
        f \in {g \in [1..Len(ds) -> 1..Len(ds)] :
                  /\ \A a, b \in 1..Len(ds) : a # b => g[a] # g[b]
                  /\ \A q \in 1..Len(ds) : g[q] <= q + buffer_size - 1}}

\* dataset.batch(batch_size, drop_remainder) of a finite dataset
RECURSIVE BatchKeepAll(_, _, _)
BatchKeepAll(ds, batch_size, drop_remainder) ==
    IF ds = <<>> THEN <<>>
    ELSE IF Len(ds) < batch_size
    THEN <<ds>>
    ELSE <<SubSeq(ds, 1, batch_size)>>
         \o BatchKeepAll(SubSeq(ds, batch_size + 1, Len(ds)), batch_size, drop_remainder)

RECURSIVE Batch(_, _, _)
Batch(ds, batch_size, drop_remainder) ==
    IF ds = <<>> THEN <<>>
    ELSE IF Len(ds) < batch_size
    THEN IF drop_remainder THEN <<>> ELSE <<ds>>
    ELSE <<SubSeq(ds, 1, batch_size)>>
         \o Batch(SubSeq(ds, batch_size + 1, Len(ds)), batch_size, drop_remainder)

Failed(message) ==
    [err |-> message, infinite |-> FALSE, batches |-> <<>>, augmented |-> FALSE]

\* dataset.repeat(): the first `count` traversals of the endless dataset
RECURSIVE Repeat(_, _)
Repeat(ds, count) == IF count <= 0 THEN <<>> ELSE ds \o Repeat(ds, count - 1)

\* the stages after the shuffle: repeat, batch, prefetch, affine transform.
\* Of a repeated (endless) dataset `batches` holds the batches of the first
\* batch_size traversals, after which the batch boundaries recur.
RepeatBatchAugmentUnchecked(ds, training, batch_size, repeat) ==
    LET size == IF batch_size <= 0 THEN 1 ELSE batch_size
    IN [err |-> "none",
        infinite |-> repeat,
        batches |-> Batch(IF repeat THEN Repeat(ds, size) ELSE ds, size, training),
        augmented |-> training]

RepeatBatchAugment(ds, training, batch_size, repeat) ==
    IF batch_size <= 0
    THEN Failed("InvalidArgumentError: batch size must be greater than zero")
    ELSE [err |-> "none",
          infinite |-> repeat,
          batches |-> Batch(IF repeat THEN Repeat(ds, batch_size) ELSE ds,
                            batch_size, training),
          augmented |-> training]

\* the datasets get_dataset_and_preprocess can return, or its failure
get_dataset_and_preprocess(n, training, batch_size, repeat, shuffle_buffer_num_batch) ==
    IF training /\ shuffle_buffer_num_batch > 0
    THEN IF batch_size * shuffle_buffer_num_batch <= 0
         THEN {Failed("InvalidArgumentError: buffer_size must be greater than zero")}
         ELSE {RepeatBatchAugment(ds, training, batch_size, repeat) :
                  ds \in ShuffleOrders(MapResize(get_dataset(n)),
                                       batch_size * shuffle_buffer_num_batch)}
    ELSE {RepeatBatchAugment(MapResize(get_dataset(n)), training, batch_size, repeat)}

NoArgs ==
    [training |-> FALSE, batch_size |-> 0, repeat |-> FALSE,
     shuffle_buffer_num_batch |-> 0]

NoPipeline == Failed("not called")

BatchIdle ==
    /\ num_records = 0
    /\ args = NoArgs
    /\ pipeline = NoPipeline

BatchInit ==
    /\ num_records \in 0..MaxRecords
    /\ args = NoArgs
    /\ pipeline = NoPipeline

\* a call of get_dataset_and_preprocess on a loader of num_records records
GetDatasetAndPreprocess ==
    /\ pipeline = NoPipeline
    /\ \E training \in BOOLEAN, batch_size \in (-1)..MaxBatchSize,
          repeat \in BOOLEAN, shuffle_buffer_num_batch \in (-1)..2 :
         /\ args' = [training |-> training, batch_size |-> batch_size,
                     repeat |-> repeat,
                     shuffle_buffer_num_batch |-> shuffle_buffer_num_batch]
         /\ pipeline' \in get_dataset_and_preprocess(
                              num_records, training, batch_size, repeat,
                              shuffle_buffer_num_batch)
    /\ UNCHANGED num_records
    /\ UNCHANGED <<sampleVars, genVars, groupVars, concatVars>>

----------------------------------------------------------------------------
\* FileLoader: the group structure of a grouped backend.  group_ids lists
\* the groups, group_sample_dict maps each group to its samples.
GroupIdLists ==
    {ids \in UNION {[1..n -> 1..MaxGroups] : n \in 0..MaxGroups} :
        \A a, b \in 1..Len(ids) : a # b => ids[a] # ids[b]}

SampleLists == {[k \in 1..n |-> k] : n \in 0..MaxGroupSize}

RECURSIVE MinOf(_)
MinOf(s) ==
    IF Len(s) = 1 THEN s[1]
    ELSE IF Head(s) <= MinOf(Tail(s)) THEN Head(s) ELSE MinOf(Tail(s))

EmptyGroups(ids, dict) == SelectSeq(ids, LAMBDA g : Len(dict[g]) = 0)

NotCalled == [op |-> "none", err |-> "none", value |-> <<>>, empty |-> <<>>]

\* FileLoader.get_num_groups
get_num_groups(is_grouped, ids) ==
    IF ~is_grouped
    THEN [op |-> "get_num_groups", err |-> "AssertionError",
          value |-> <<>>, empty |-> <<>>]
    ELSE [op |-> "get_num_groups", err |-> "none",
          value |-> <<Len(ids)>>, empty |-> <<>>]

\* FileLoader.get_num_images_per_group
get_num_images_per_group_no_check(is_grouped, ids, dict) ==
    IF ~is_grouped
    THEN [op |-> "get_num_images_per_group", err |-> "AssertionError",
          value |-> <<>>, empty |-> <<>>]
    ELSE [op |-> "get_num_images_per_group", err |-> "none",
          value |-> [i \in 1..Len(ids) |-> Len(dict[ids[i]])], empty |-> <<>>]

get_num_images_per_group(is_grouped, ids, dict) ==
    IF ~is_grouped
    THEN [op |-> "get_num_images_per_group", err |-> "AssertionError",
          value |-> <<>>, empty |-> <<>>]
    ELSE LET num_images_per_group == [i \in 1..Len(ids) |-> Len(dict[ids[i]])]
         IN IF num_images_per_group = <<>>
            THEN [op |-> "get_num_images_per_group",
                  err |-> "ValueError: min() arg is an empty sequence",
                  value |-> <<>>, empty |-> <<>>]
            ELSE IF MinOf(num_images_per_group) = 0
            THEN [op |-> "get_num_images_per_group",
                  err |-> "ValueError: groups are empty",
                  value |-> <<>>, empty |-> EmptyGroups(ids, dict)]
            ELSE [op |-> "get_num_images_per_group", err |-> "none",
                  value |-> num_images_per_group, empty |-> <<>>]

GroupIdle ==
    /\ grouped = FALSE
    /\ group_ids = <<>>
    /\ group_sample_dict = [g \in 1..MaxGroups |-> <<>>]
    /\ group_result = NotCalled

GroupInit ==
    /\ grouped \in BOOLEAN
    /\ group_ids \in (IF grouped THEN GroupIdLists ELSE {<<>>})
    /\ group_sample_dict \in (IF grouped THEN [1..MaxGroups -> SampleLists]
                              ELSE {[g \in 1..MaxGroups |-> <<>>]})
    /\ group_result = NotCalled

GetNumGroups ==
    /\ group_result = NotCalled
    /\ group_result' = get_num_groups(grouped, group_ids)
    /\ UNCHANGED <<grouped, group_ids, group_sample_dict>>
    /\ UNCHANGED <<sampleVars, genVars, batchVars, concatVars>>

GetNumImagesPerGroup ==
    /\ group_result = NotCalled
    /\ group_result' = get_num_images_per_group(grouped, group_ids, group_sample_dict)
    /\ UNCHANGED <<grouped, group_ids, group_sample_dict>>
    /\ UNCHANGED <<sampleVars, genVars, batchVars, concatVars>>

----------------------------------------------------------------------------
\* ConcatenatedDataLoader and DataLoader.close.  A child loader has a kind,
\* the way its close() behaves, and its num_samples:
\*   "noop"  DataLoader.close, which does nothing
\*   "idem"  releases its file handles; closing again does nothing
\*   "once"  releases its file handles; closing again raises
\*   "fail"  raises and releases nothing
ChildKinds == {"noop", "idem", "once", "fail"}

Children == [kind : ChildKinds, num_samples : 0..MaxNumSamples]

\* loader.close() of one child: the error raised and whether its handles
\* are released afterwards
ChildClose(loader, is_closed) ==
    IF loader.kind = "noop" THEN [err |-> "none", closed |-> is_closed]
    ELSE IF loader.kind = "idem" THEN [err |-> "none", closed |-> TRUE]
    ELSE IF loader.kind = "once"
    THEN IF is_closed THEN [err |-> "ValueError: already closed", closed |-> TRUE]
         ELSE [err |-> "none", closed |-> TRUE]
    ELSE [err |-> "IOError", closed |-> is_closed]

\* DataLoader.close: pass
DataLoaderClose(state) == [err |-> "none", closed |-> state, attempted |-> {}]

\* ConcatenatedDataLoader.close: the loop over self.loaders from child i on
RECURSIVE CloseLoop(_, _, _, _)
CloseLoop(children, i, state, att) ==
    IF i > Len(children)
    THEN [err |-> "none", closed |-> state, attempted |-> att]
    ELSE LET r == ChildClose(children[i], state[i])
         IN IF r.err # "none"
            THEN [err |-> r.err, closed |-> [state EXCEPT ![i] = r.closed],
                  attempted |-> att \cup {i}]
            ELSE CloseLoop(children, i + 1, [state EXCEPT ![i] = r.closed],
                           att \cup {i})

\* (a close() that drops self.loaders once its children are closed)
ConcatenatedCloseDropsLoaders(children, state) ==
    IF \E i \in 1..Len(state) : state[i]
    THEN [err |-> "TypeError", closed |-> state, attempted |-> {}]
    ELSE CloseLoop(children, 1, state, {})

ConcatenatedClose(children, state) == CloseLoop(children, 1, state, {})

\* the builtin sum over a list (a left fold from 0)
RECURSIVE SumList(_)
SumList(s) == IF s = <<>> THEN 0 ELSE SumList(Front(s)) + Last(s)

\* ConcatenatedDataLoader.num_samples
ConcatenatedNumSamplesSkipFirst(children) ==
    SumList([i \in 1..(Len(children) - 1) |-> children[i + 1].num_samples])

ConcatenatedNumSamples(children) ==
    SumList([i \in 1..Len(children) |-> children[i].num_samples])

NoNumSamples == [err |-> "not called", value |-> 0]

ConcatIdle ==
    /\ loader_class = "DataLoader"
    /\ loaders = <<>>
    /\ closed = <<>>
    /\ attempted = {}
    /\ close_calls = 0
    /\ close_result = "idle"
    /\ num_samples_result = NoNumSamples

\* after construction: a plain DataLoader, or a ConcatenatedDataLoader over a
\* non-empty list of children, all of them open
ConcatInit ==
    /\ loader_class \in {"DataLoader", "ConcatenatedDataLoader"}
    /\ loaders \in (IF loader_class = "DataLoader" THEN {<<>>}
                    ELSE UNION {[1..n -> Children] : n \in 1..MaxLoaders})
    /\ closed = [i \in 1..Len(loaders) |-> FALSE]
    /\ attempted = {}
    /\ close_calls = 0
    /\ close_result = "not called"
    /\ num_samples_result = NoNumSamples

\* a read of the property num_samples
NumSamples ==
    /\ num_samples_result = NoNumSamples
    /\ num_samples_result' =
          IF loader_class = "DataLoader"
          THEN [err |-> "NotImplementedError", value |-> 0]
          ELSE [err |-> "none", value |-> ConcatenatedNumSamples(loaders)]
    /\ UNCHANGED <<loader_class, loaders, closed, attempted, close_calls, close_result>>
    /\ UNCHANGED <<sampleVars, genVars, batchVars, groupVars>>

\* a call of close()
Close ==
    /\ close_calls < MaxCloseCalls
    /\ LET r == IF loader_class = "DataLoader"
                THEN DataLoaderClose(closed)
                ELSE ConcatenatedClose(loaders, closed)
       IN /\ closed' = r.closed
          /\ attempted' = r.attempted
          /\ close_result' = r.err
    /\ close_calls' = close_calls + 1
    /\ UNCHANGED <<loader_class, loaders, num_samples_result>>
    /\ UNCHANGED <<sampleVars, genVars, batchVars, groupVars>>

----------------------------------------------------------------------------
\* Specifications, one per component; the other components stay idle
NextSample == Validate \/ SampleImageLabel

InitSample == SampleInit /\ GenIdle /\ BatchIdle /\ GroupIdle /\ ConcatIdle

SpecSample == InitSample /\ [][NextSample]_vars

NextGen == DataGeneratorNext

InitGen == SampleIdle /\ GenInit /\ BatchIdle /\ GroupIdle /\ ConcatIdle

SpecGen == InitGen /\ [][NextGen]_vars

NextBatch == GetDatasetAndPreprocess

InitBatch == SampleIdle /\ GenIdle /\ BatchInit /\ GroupIdle /\ ConcatIdle

SpecBatch == InitBatch /\ [][NextBatch]_vars

NextGroup == GetNumGroups \/ GetNumImagesPerGroup

InitGroup == SampleIdle /\ GenIdle /\ BatchIdle /\ GroupInit /\ ConcatIdle

SpecGroup == InitGroup /\ [][NextGroup]_vars

NextConcat == NumSamples \/ Close

InitConcat == SampleIdle /\ GenIdle /\ BatchIdle /\ GroupIdle /\ ConcatInit

SpecConcat == InitConcat /\ [][NextConcat]_vars

----------------------------------------------------------------------------
\* Claims on ConcatenatedDataLoader (SpecConcat)

IsConcatenated == loader_class = "ConcatenatedDataLoader"

CloseFailed == close_calls > 0 /\ close_result # "none"

\* C1: when close() of a ConcatenatedDataLoader ends with the failure of a
\* child, close() has been called on every child, the later ones included
C1_FailedCloseAttemptsEveryChild ==
    (IsConcatenated /\ CloseFailed) => attempted = 1..Len(loaders)

\* the disjoint union of the children's samples: child i contributes the
\* pairs <<i, 1>> .. <<i, num_samples>>
AllSamples ==
    {p \in (1..Len(loaders)) \X (1..(MaxNumSamples + 1)) :
        p[2] <= loaders[p[1]].num_samples}

\* C9: num_samples of a ConcatenatedDataLoader returns, without error, the
\* exact sum of the num_samples of its children
C9_NumSamplesIsSumOfChildren ==
    (IsConcatenated /\ num_samples_result # NoNumSamples)
        => /\ num_samples_result.err = "none"
           /\ num_samples_result.value = Cardinality(AllSamples)

C9_Witness ==
    /\ IsConcatenated
    /\ Len(loaders) = 3
    /\ loaders[1].num_samples = 2 /\ loaders[2].num_samples = 1
    /\ loaders[3].num_samples = 2
    /\ num_samples_result = [err |-> "none", value |-> 5]

IdempotentChildren ==
    \A i \in 1..Len(loaders) : loaders[i].kind \in {"noop", "idem"}

\* C10: with children whose close() is idempotent, a second or later close()
\* of a DataLoader or ConcatenatedDataLoader raises nothing and leaves the
\* loader and its children as the first call left them
C10_CloseIsIdempotent ==
    [][(close_calls >= 1 /\ close_calls' = close_calls + 1 /\ IdempotentChildren)
          => (close_result' = "none" /\ closed' = closed)]_vars

C10_Witness ==
    /\ IsConcatenated
    /\ IdempotentChildren
    /\ close_calls = 2
    /\ close_result = "none"
    /\ Len(loaders) = 2
    /\ loaders[1].kind = "noop" /\ loaders[2].kind = "idem"
    /\ closed = <<FALSE, TRUE>>

----------------------------------------------------------------------------
\* Claims on the grouped FileLoader (SpecGroup)

QueriedImagesPerGroup == grouped /\ group_result.op = "get_num_images_per_group"

SomeGroupEmpty == \E i \in 1..Len(group_ids) : group_sample_dict[group_ids[i]] = <<>>

CountsInOrder ==
    /\ Len(group_result.value) = Len(group_ids)
    /\ \A i \in 1..Len(group_ids) :
          group_result.value[i] = Cardinality(Range(group_sample_dict[group_ids[i]]))

\* C8 as stated: get_num_images_per_group of a grouped FileLoader raises
\* exactly when some group of group_ids has no samples, and otherwise
\* returns the sample counts of the groups in group_ids order
C8_RaisesIffSomeGroupEmpty ==
    QueriedImagesPerGroup
        => /\ (group_result.err # "none") <=> SomeGroupEmpty
           /\ group_result.err = "none" => CountsInOrder

\* C8 amended: get_num_images_per_group of a grouped FileLoader raises
\* exactly when group_ids is empty or some group of group_ids has no
\* samples, and otherwise returns the sample counts in group_ids order
C8_RaisesIffNoGroupOrSomeGroupEmpty ==
    QueriedImagesPerGroup
        => /\ (group_result.err # "none") <=> (group_ids = <<>> \/ SomeGroupEmpty)
           /\ group_result.err = "none" => CountsInOrder

C8_Witness ==
    /\ QueriedImagesPerGroup
    /\ group_ids = <<3, 1, 2>>
    /\ Len(group_sample_dict[3]) = 2
    /\ group_sample_dict[1] = <<>>
    /\ Len(group_sample_dict[2]) = 1
    /\ group_result.err = "ValueError: groups are empty"
    /\ group_result.empty = <<1>>

----------------------------------------------------------------------------
\* Claims on get_dataset_and_preprocess (SpecBatch)

Called == pipeline # NoPipeline

BatchSizes == [i \in 1..Len(pipeline.batches) |-> Len(pipeline.batches[i])]

\* C3: without repeat, n records in batches of B give n div B batches, all
\* of size B, when training (the partial batch is dropped), and ceil(n / B)
\* batches, the last of size n mod B when that is not 0, when not training
C3_PartialBatchDroppedOnlyWhenTraining ==
    (Called /\ pipeline.err = "none" /\ ~args.repeat)
        => LET n == num_records
               B == args.batch_size
           IN IF args.training
              THEN /\ Len(BatchSizes) = n \div B
                   /\ \A i \in 1..Len(BatchSizes) : BatchSizes[i] = B
              ELSE /\ Len(BatchSizes) = (n + B - 1) \div B
                   /\ \A i \in 1..(n \div B) : BatchSizes[i] = B
                   /\ n % B # 0 => BatchSizes[Len(BatchSizes)] = n % B

C3_Witness ==
    /\ Called /\ pipeline.err = "none"
    /\ args.training /\ ~args.repeat
    /\ num_records = 4 /\ args.batch_size = 3
    /\ BatchSizes = <<3>>

\* C4 as stated: a call with training = True and inconsistent batch /
\* shuffle parameters (a batch_size <= 0, a negative
\* shuffle_buffer_num_batch) fails instead of returning a dataset
C4_InconsistentParametersFail ==
    (Called /\ args.training
        /\ (args.batch_size <= 0 \/ args.shuffle_buffer_num_batch < 0))
        => pipeline.err # "none"

\* C4 amended: a call with training = True fails exactly when
\* batch_size <= 0 (the shuffle or batch stage rejects it); a negative
\* shuffle_buffer_num_batch is not rejected, the shuffle is skipped
C4_TrainingFailsIffBatchSizeNotPositive ==
    (Called /\ args.training)
        => ((pipeline.err # "none") <=> (args.batch_size <= 0))

C4_Witness ==
    /\ Called /\ args.training
    /\ args.batch_size = 0 /\ args.shuffle_buffer_num_batch = 0
    /\ pipeline.err = "InvalidArgumentError: batch size must be greater than zero"

----------------------------------------------------------------------------
\* Claims on validate_images_and_labels and sample_image_label (SpecSample)

Inputs == <<moving_image, fixed_image, moving_label, fixed_label>>

ImageIsNone == moving_image.none \/ fixed_image.none

OneLabelIsNone == moving_label.none # fixed_label.none

ValueOutside01 ==
    \E i \in 1..4 : ~Inputs[i].none /\ (Inputs[i].lo < 0 \/ Inputs[i].hi > Inputs[i].den)

ImageNot3D ==
    \E i \in 1..2 : ~Inputs[i].none /\ Len(Inputs[i].shape) # 3

LabelNot3DOr4D ==
    \E i \in 3..4 : ~Inputs[i].none /\ Len(Inputs[i].shape) \notin {3, 4}

ChannelCount(label) == IF Len(label.shape) = 3 THEN 1 ELSE label.shape[Len(label.shape)]

ChannelCountsDiffer ==
    /\ ~moving_label.none /\ ~fixed_label.none
    /\ ChannelCount(moving_label) # ChannelCount(fixed_label)

ListedFailure ==
    \/ ImageIsNone \/ OneLabelIsNone \/ ValueOutside01
    \/ ImageNot3D \/ LabelNot3DOr4D \/ ChannelCountsDiffer

SomeArrayEmpty ==
    \E i \in 1..4 : ~Inputs[i].none /\ \E d \in 1..Len(Inputs[i].shape) : Inputs[i].shape[d] = 0

SpatialShapesDiffer ==
    /\ ~ImageIsNone /\ ~moving_label.none /\ ~fixed_label.none
    /\ \/ \E d \in 1..3 : moving_image.shape[d] # moving_label.shape[d]
       \/ \E d \in 1..3 : fixed_image.shape[d] # fixed_label.shape[d]

\* C2 as stated: validate_images_and_labels raises exactly when an image is
\* None, one label alone is None, a value is outside [0, 1], an image is not
\* 3-D, a label is not 3-D or 4-D, or the label channel counts differ
C2_RaisesIffListedFailure ==
    call = "validate" => ((outcome # "none") <=> ListedFailure)

\* C2 amended: validate_images_and_labels raises exactly when one of the
\* listed failures holds or some non-None array has no elements; otherwise
\* it returns, and differing image / label spatial shapes only log a warning
C2_RaisesIffListedFailureOrEmptyArray ==
    call = "validate"
        => /\ (outcome # "none") <=> (ListedFailure \/ SomeArrayEmpty)
           /\ (outcome = "none" /\ SpatialShapesDiffer) => warnings > 0

C2_Witness ==
    /\ call = "validate"
    /\ outcome = "none"
    /\ warnings = 1
    /\ moving_label.shape = <<Side, Side, Side + 1>>
    /\ fixed_label.shape = <<Side, Side, Side>>

ValidInput ==
    validate_images_and_labels(moving_image, fixed_image, moving_label,
                               fixed_label).err = "none"

\* channel k of a label: the view [..., k] of a 4-D label, the label itself
\* (k = 0) of a 3-D one
ChannelOf(label, k) ==
    IF Len(label.shape) = 4
    THEN [label EXCEPT !.shape = SubSeq(label.shape, 1, 3), !.sel = <<k>>]
    ELSE label

\* C5: for a valid input with a 4-D moving label of N channels and the
\* policy "all", sample_image_label yields N records, the k-th with indices
\* image_indices + [k] and channel k of the moving and of the fixed label
C5_AllPolicyYieldsEveryChannel ==
    (call = "sample" /\ ValidInput /\ ~moving_label.none
        /\ Len(moving_label.shape) = 4 /\ sample_label.kind = "all")
        => /\ outcome = "none"
           /\ Len(records) = moving_label.shape[4]
           /\ \A k \in 0..(moving_label.shape[4] - 1) :
                 /\ records[k + 1].indices = image_indices \o <<k>>
                 /\ records[k + 1].moving_label = ChannelOf(moving_label, k)
                 /\ records[k + 1].fixed_label = ChannelOf(fixed_label, k)

\* C6: for a valid input without labels or with a 3-D moving label,
\* sample_image_label yields one record, with indices image_indices + [-1]
\* and no label keys when unlabeled, image_indices + [0] when labeled
C6_OneRecordForUnlabeledOr3D ==
    (call = "sample" /\ ValidInput
        /\ (moving_label.none \/ Len(moving_label.shape) = 3))
        => /\ outcome = "none"
           /\ Len(records) = 1
           /\ IF moving_label.none
              THEN /\ records[1].indices = image_indices \o <<-1>>
                   /\ DOMAIN records[1] = {"moving_image", "fixed_image", "indices"}
              ELSE records[1].indices = image_indices \o <<0>>

C6_Witness ==
    /\ call = "sample"
    /\ moving_label = None /\ fixed_label = None
    /\ image_indices = <<2, 0>>
    /\ outcome = "none"
    /\ Len(records) = 1
    /\ records[1].indices = <<2, 0, -1>>

\* the rank get_dataset declares for moving_label and fixed_label:
\* output_shapes = tf.TensorShape([None, None, None])
DeclaredLabelRank == 3

\* C11: every record sample_image_label emits for a labeled input that
\* validate_images_and_labels accepts carries a moving_label and a
\* fixed_label that are both exactly 3-dimensional
C11_EmittedLabelsAre3D ==
    (call = "sample" /\ ValidInput /\ ~moving_label.none)
        => \A n \in 1..Len(records) :
              /\ Len(records[n].moving_label.shape) = DeclaredLabelRank
              /\ Len(records[n].fixed_label.shape) = DeclaredLabelRank

----------------------------------------------------------------------------
\* Claims on data_generator (SpecGen)

ValidationErrors ==
    {"ValueError: image is None", "ValueError: one label is None",
     "ValueError: zero-size array", "ValueError: value outside [0,1]",
     "ValueError: image not 3D", "ValueError: label not 3D or 4D",
     "ValueError: different numbers of labels"}

\* whether the sample of the j-th index tuple passes validation
TupleIsValid(j) ==
    LET image(arr) == [arr EXCEPT !.den = 255]
        e == backend[j]
    IN validate_images_and_labels(
           image(e.moving_image), image(e.fixed_image),
           IF labeled THEN e.moving_label ELSE None,
           IF labeled THEN e.fixed_label ELSE None).err = "none"

\* the first index tuple whose sample fails validation
FirstInvalid ==
    IF \A j \in 1..Len(backend) : TupleIsValid(j) THEN Len(backend) + 1
    ELSE CHOOSE j \in 1..Len(backend) :
            ~TupleIsValid(j) /\ \A i \in 1..(j - 1) : TupleIsValid(i)

\* the index tuple (counted from 1) a record was made from
TupleOf(record) == record.indices[1] + 1

\* the number of records the j-th index tuple gives when it is valid
RecordsOfTuple(j) ==
    IF labeled /\ Len(backend[j].moving_label.shape) = 4 /\ gen_policy.kind = "all"
    THEN backend[j].moving_label.shape[4]
    ELSE 1

EmittedOf(j) == Cardinality({n \in 1..Len(emitted) : TupleOf(emitted[n]) = j})

\* C7: no record of an index tuple that fails validation, or of a later
\* one, is ever emitted; records come in index tuple order; the traversal
\* ends with the validation error right at the first failing tuple, all
\* records of the earlier tuples emitted, and never ends normally past it
C7_InvalidSampleAbortsTraversal ==
    /\ \A n \in 1..Len(emitted) : TupleOf(emitted[n]) < FirstInvalid
    /\ \A n, m \in 1..Len(emitted) : n < m => TupleOf(emitted[n]) <= TupleOf(emitted[m])
    /\ gen_status \in ValidationErrors
          => /\ FirstInvalid <= Len(backend)
             /\ position = FirstInvalid + 1
             /\ \A j \in 1..(FirstInvalid - 1) : EmittedOf(j) = RecordsOfTuple(j)
    /\ gen_status = "done" => FirstInvalid = Len(backend) + 1

C7_Witness ==
    /\ gen_status = "ValueError: value outside [0,1]"
    /\ labeled /\ gen_policy.kind = "all"
    /\ Len(backend) = 3
    /\ FirstInvalid = 2
    /\ Len(emitted) = MaxChannels
    /\ TupleIsValid(3)

====
